---- MODULE Spec2Model ----
(***************************************************************************)
(* A model of the vmemprof micro-benchmarks: every registered benchmark    *)
(* function (memcpy_baseline_inline, memcpy_clflush,                       *)
(* cache_flushing_clflush, memcpy_cpu_flush,                               *)
(* cache_flushing_flush_std_memset, memcpy_cpu_flush_padded,               *)
(* memcpy_copies_padded, memcpy_tlb, memcpy_32mb_l3,                       *)
(* memcpy_vmem_tlb_flush) is run statement by statement for each of its    *)
(* registered parameter values.                                            *)
(*                                                                         *)
(* Sizes, offsets and addresses are the program's own numbers.  size_t     *)
(* values that can exceed 2^31 (addresses inside the replica buffer and    *)
(* its size) are kept as two-limb numbers <<hi, lo>> = hi * LIMB + lo.     *)
(* Buffer contents are kept as a log of fills (a range, or an arithmetic   *)
(* progression of equal ranges, holding one byte value); the byte at an    *)
(* address is the value of the last fill that covers it.                   *)
(*                                                                         *)
(* Spec runs every benchmark through one rotation of its replicas and to   *)
(* its return; SpecRounds runs memcpy_cpu_flush through 256 rotations;     *)
(* SpecZero runs the functions sized by state.range(0) on the value 0;     *)
(* SpecLayout places input_buffer at many base addresses; SpecLoops runs   *)
(* the byte loops memset_impl and memcpy_impl one store per step.          *)
(***************************************************************************)
EXTENDS Integers, Sequences, FiniteSets, TLC

VARIABLES
    variant,        \* the benchmark function being run
    arg,            \* state.range(0)
    pc,             \* position in the function outside the benchmark loop
    ip,             \* index of the next statement of the loop body
    iter,           \* iterations of `for (auto _ : state)` started so far
    input_buffer,   \* address returned for input_buffer
    i,              \* index of the replica-population loop
    copies,         \* the copies[] array (an arithmetic progression of addresses)
    source_mem,     \* contents of source_buffer
    input_mem,      \* contents of input_buffer
    output_mem,     \* contents of output_buffer
    flush_mem,      \* contents of flush_buffer
    flush_value,    \* uint8_t flush_value
    copy_index,     \* size_t copy_index
    buffer,         \* uint8_t* buffer of the current iteration
    prot,           \* page protection of the VirtualAlloc'd region
    flushed,        \* cache lines _mm_clflush was issued for in this iteration
    trace,          \* statements executed so far in this iteration
    issued,         \* measured copies issued so far in this iteration
    overwrites,     \* number of flush-buffer overwrites executed
    last_flush,     \* byte held by the flush region before / after the last overwrite
    allocs,         \* allocation calls made so far: what, by which call, how many bytes
    frees,          \* release calls made so far: what, by which call, whether it released
    live,           \* the allocations that are not released
    counters,       \* state.counters as set before the function returns
    call,           \* parameters and locals of a running memset_impl / memcpy_impl
    memory,         \* the bytes that call works on, one value per address
    entry,          \* call and bytes as they were when the function was entered
    stores          \* the addresses the function stored to so far

vars == <<variant, arg, pc, ip, iter, input_buffer, i, copies, source_mem, input_mem,
          output_mem, flush_mem, flush_value, copy_index, buffer, prot, flushed,
          trace, issued, overwrites, last_flush, allocs, frees, live, counters,
          call, memory, entry, stores>>

\* The state of the byte loops, which the benchmark functions call as one step.
callvars == <<call, memory, entry, stores>>

----------------------------------------------------------------------------
(* Bounds of the model. *)

\* The harness runs NUM_COPIES + MaxExtraIters iterations of the benchmark loop.
MaxExtraIters == 2

----------------------------------------------------------------------------
(* Two-limb size_t arithmetic. *)

LIMB == 4096 * 4096

W(n) == <<n \div LIMB, n % LIMB>>

WNorm(q, r) == <<q + (r \div LIMB), r % LIMB>>

WAdd(a, b) == WNorm(a[1] + b[1], a[2] + b[2])

WAddN(a, n) == WNorm(a[1], a[2] + n)

WMulN(a, n) == WNorm(a[1] * n, a[2] * n)

WLess(a, b) == a[1] < b[1] \/ (a[1] = b[1] /\ a[2] < b[2])

WLeq(a, b) == a = b \/ WLess(a, b)

\* a - b for a >= b
WSub(a, b) ==
    IF a[2] >= b[2] THEN <<a[1] - b[1], a[2] - b[2]>>
                    ELSE <<a[1] - b[1] - 1, a[2] + LIMB - b[2]>>

\* <<d \div s, d % s>> for a two-limb d and 0 < s <= LIMB
WDivMod(d, s) ==
    LET a == LIMB \div s
        b == LIMB % s
        t == d[1] * b + d[2]
    IN  <<d[1] * a + (t \div s), t % s>>

\* min(d, n) as a plain number, for a two-limb d and a plain n
WCap(d, n) == IF WLess(d, W(n)) THEN d[1] * LIMB + d[2] ELSE n

Min(a, b) == IF a < b THEN a ELSE b

\* x & ~m on non-negative numbers, bit by bit
RECURSIVE AndNot(_, _)
AndNot(x, m) ==
    IF x = 0 THEN 0
    ELSE (IF m % 2 = 1 THEN 0 ELSE x % 2) + 2 * AndNot(x \div 2, m \div 2)

\* p & ~m for a two-limb p and a mask m < LIMB
WAndNot(p, m) == <<p[1], AndNot(p[2], m)>>

----------------------------------------------------------------------------
(* Buffer contents.  A fill is count ranges of len bytes, stride bytes      *)
(* apart, the first at address start, every byte holding val.              *)

\* A byte of a new[] array or of the stack that nothing was stored in yet
\* holds no value of the byte range 0..255.
Indeterminate == 256

\* Pages committed by VirtualAlloc read as zero.
ZeroPage == 0

Fill(s, n, v) == [start |-> s, len |-> n, stride |-> 0, count |-> 1, val |-> v]

Covers(f, a) ==
    IF WLess(a, f.start) THEN FALSE
    ELSE LET d == WSub(a, f.start)
         IN  IF f.count = 1 THEN WLess(d, W(f.len))
             ELSE LET qr == WDivMod(d, f.stride)
                      jj == Min(qr[1], f.count - 1)
                      over == qr[1] - jj
                  IN  /\ over <= f.len \div f.stride
                      /\ over * f.stride + qr[2] < f.len

RECURSIVE ByteFrom(_, _, _, _)
ByteFrom(mem, k, init, a) ==
    IF k = 0 THEN init
    ELSE IF Covers(mem[k], a) THEN mem[k].val
    ELSE ByteFrom(mem, k - 1, init, a)

\* The byte stored at address a: the last store that covers it wins.
ByteAt(mem, init, a) == ByteFrom(mem, Len(mem), init, a)

\* Distance from a to the first start or end of a range of f above a (at most n).
BoundaryDist(f, a, n) ==
    IF WLess(a, f.start) THEN WCap(WSub(f.start, a), n)
    ELSE LET d == WSub(a, f.start)
         IN  IF f.count = 1
             THEN IF WLess(d, W(f.len)) THEN WCap(WSub(W(f.len), d), n) ELSE n
             ELSE LET qr == WDivMod(d, f.stride)
                      toStart == IF qr[1] + 1 < f.count THEN f.stride - qr[2] ELSE n
                      e0 == IF WLess(d, W(f.len)) THEN 0
                            ELSE WDivMod(WSub(d, W(f.len)), f.stride)[1] + 1
                      toEnd == IF e0 < f.count
                               THEN WCap(WSub(WAddN(WMulN(W(f.stride), e0), f.len), d), n)
                               ELSE n
                  IN  Min(n, Min(toStart, toEnd))

RECURSIVE RunFrom(_, _, _, _)
RunFrom(mem, k, a, n) ==
    IF k = 0 THEN n ELSE RunFrom(mem, k - 1, a, BoundaryDist(mem[k], a, n))

\* Length of the longest run of equal bytes starting at a, at most n (n > 0).
RunLen(mem, a, n) == RunFrom(mem, Len(mem), a, n)

\* Whether the n bytes at a all hold v.
RECURSIVE RangeIs(_, _, _, _, _)
RangeIs(mem, init, a, n, v) ==
    IF n = 0 THEN TRUE
    ELSE LET m == RunLen(mem, a, n)
         IN  ByteAt(mem, init, a) = v /\ RangeIs(mem, init, WAddN(a, m), n - m, v)

Shadowed(f, s, n) ==
    /\ f.count = 1
    /\ WLeq(s, f.start)
    /\ WLeq(WAddN(f.start, f.len), WAddN(s, n))

\* Store v in the n bytes at s.  Fills wholly overwritten are dropped, and a
\* store that continues the arithmetic progression of the last fill joins it.
MemWrite(mem, s, n, v) ==
    IF n = 0 THEN mem
    ELSE LET kept == SelectSeq(mem, LAMBDA f : ~Shadowed(f, s, n))
             k == Len(kept)
             L == kept[k]
             joins == /\ k > 0
                      /\ L.val = v
                      /\ L.len = n
                      /\ WLess(L.start, s)
                      /\ IF L.count = 1
                         THEN WLeq(WSub(s, L.start), W(LIMB))
                         ELSE s = WAdd(L.start, WMulN(W(L.stride), L.count))
         IN  IF joins
             THEN [kept EXCEPT ![k] =
                     [L EXCEPT !.count = L.count + 1,
                               !.stride = IF L.count = 1
                                          THEN WCap(WSub(s, L.start), LIMB)
                                          ELSE L.stride]]
             ELSE Append(kept, Fill(s, n, v))

\* std::memset(dst, v, n) and the byte loops memset_impl(dst, n, v)
Memset(mem, dst, n, v) == MemWrite(mem, dst, n, v)

\* std::memcpy(dst, src, n) and the byte loop memcpy_impl(dst, src, n):
\* byte k of the destination receives byte k of the source, run by run.
RECURSIVE Memcpy(_, _, _, _, _, _)
Memcpy(dmem, dst, smem, sinit, src, n) ==
    IF n = 0 THEN dmem
    ELSE LET m == RunLen(smem, src, n)
             v == ByteAt(smem, sinit, src)
         IN  Memcpy(MemWrite(dmem, dst, m, v), WAddN(dst, m), smem, sinit, WAddN(src, m), n - m)

----------------------------------------------------------------------------
(* The registered benchmarks and their constants. *)

Baseline  == "memcpy_baseline_inline"
Clflush   == "memcpy_clflush"
CfClflush == "cache_flushing_clflush"
CpuFlush  == "memcpy_cpu_flush"
StdMemset == "cache_flushing_flush_std_memset"
Padded    == "memcpy_cpu_flush_padded"
CopiesPad == "memcpy_copies_padded"
Tlb       == "memcpy_tlb"
L3        == "memcpy_32mb_l3"
VmemTlb   == "memcpy_vmem_tlb_flush"

Variants == {Baseline, Clflush, CfClflush, CpuFlush, StdMemset, Padded, CopiesPad,
             Tlb, L3, VmemTlb}

\* The values the BENCHMARK(...) registrations give state.range(0);
\* 0 stands for a registration without ->Arg.
Args(v) ==
    CASE v = CpuFlush  -> {8, 16, 32}
      [] v = StdMemset -> {8, 16, 32}
      [] v = Padded    -> {0, 4, 16, 32, 64, 96}
      [] v = CopiesPad -> {0, 4 * 1024, 16 * 1024 * 1024}
      [] v = Tlb       -> {850, 1500, 2500, 3500}
      [] v = L3        -> {33, 43, 53}
      [] v = VmemTlb   -> {40, 68}
      [] OTHER         -> {0}

\* Variants that copy the source into a set of replicas and rotate over them.
Rotating == {CpuFlush, StdMemset, Padded, CopiesPad, Tlb, L3, VmemTlb}

\* Variants that evict by overwriting a flush buffer.
BulkOverwrite == {CpuFlush, StdMemset, Padded, CopiesPad}

\* Variants that flush the input buffer with _mm_clflush.
ExplicitFlush == {Clflush, CfClflush}

\* Variants registered with ->UseManualTime()
ManualTime == {Clflush, CfClflush, CpuFlush, StdMemset, Padded, CopiesPad, VmemTlb}

MARKER == 166

CACHE_LINE_SIZE == 64

PAGE_SIZE == 4 * 1024

OUTPUT_BUFFER_SIZE == 3 * 1024

\* const size_t PADDING_SIZE = state.range(0) * 1024;
PADDING_SIZE(a) == a * 1024

\* SOURCE_SIZE of memcpy_tlb left at the unrounded 17234 bytes.
TlbSourceSize_Unrounded == 17233 + 1

\* (17234 + PAGE_SIZE - 1) & ~(PAGE_SIZE - 1)
TlbSourceSize == AndNot(17234 + PAGE_SIZE - 1, PAGE_SIZE - 1)

\* (17234 + PADDING_SIZE - 1) / PADDING_SIZE
VmemSourceSize(a) == (17234 + PADDING_SIZE(a) - 1) \div PADDING_SIZE(a)

\* SOURCE_SIZE (BUFFER_SIZE in cache_flushing_clflush): the bytes of the source
\* buffer, and of one replica as the variant populates it.
SOURCE_SIZE(v, a) ==
    CASE v = Tlb     -> TlbSourceSize
      [] v = VmemTlb -> VmemSourceSize(a)
      [] OTHER       -> 17234

\* The padded size one page short of the rounded size.
PADDED_SOURCE_SIZE_Short(a) ==
    IF a # 0 THEN AndNot(17234 + a - 1, a - 1) - PAGE_SIZE ELSE 17234

\* PADDED_SOURCE_SIZE of memcpy_copies_padded
PADDED_SOURCE_SIZE(a) ==
    IF a # 0 THEN AndNot(17234 + a - 1, a - 1) ELSE 17234

\* The distance between copies[i] and copies[i + 1].
ReplicaStride(v, a) ==
    IF v = CopiesPad THEN PADDED_SOURCE_SIZE(a) ELSE SOURCE_SIZE(v, a)

TOTAL_COPY_SIZE == 401 + 801 + 301

L3Copies(a) == (a * 1024 * 1024) \div TOTAL_COPY_SIZE

NUM_COPIES(v, a) ==
    CASE v = Tlb      -> a
      [] v = L3       -> L3Copies(a)
      [] v = VmemTlb  -> 32
      [] v \in BulkOverwrite -> 1000
      [] OTHER        -> 1

\* input_buffer used as the allocator returned it.
InputAlignment_None(v) == 1

\* The alignment applied to input_buffer (1: none), and the padding added for it.
InputAlignment(v) ==
    CASE v \in {CpuFlush, StdMemset, Padded, Tlb} -> PAGE_SIZE
      [] v = CopiesPad -> 2 * 1024 * 1024
      [] OTHER -> 1

\* INPUT_BUFFER_SIZE without the padding for alignment.
AlignmentPadding_None(v, a) == 0

AlignmentPadding(v, a) ==
    CASE v \in {CpuFlush, StdMemset, Padded, Tlb} -> PAGE_SIZE
      [] v = CopiesPad -> 2 * 1024 * 1024
      [] v = VmemTlb   -> PADDING_SIZE(a)
      [] OTHER -> 0

\* INPUT_BUFFER_SIZE, a two-limb number
INPUT_BUFFER_SIZE(v, a) ==
    IF v \in Rotating
    THEN WAddN(WMulN(W(ReplicaStride(v, a)), NUM_COPIES(v, a)), AlignmentPadding(v, a))
    ELSE W(SOURCE_SIZE(v, a))

\* reinterpret_cast<uintptr_t>(input_buffer + ALIGN - 1) & ~(ALIGN - 1)
AlignUp(p, align) == WAndNot(WAddN(p, align - 1), align - 1)

aligned_input_buffer == AlignUp(input_buffer, InputAlignment(variant))

CPU_CACHE_SIZE == 8 * 1024 * 1024

FLUSH_BUFFER_SIZE(v, a) ==
    CASE v \in {CpuFlush, StdMemset} -> a * 1024 * 1024 * 4
      [] v \in {Padded, CopiesPad}   -> CPU_CACHE_SIZE * 4
      [] OTHER -> 0

VMEM_PADDING(v, a) ==
    CASE v = Padded    -> a * 1024 * 1024
      [] v = CopiesPad -> 16 * 1024 * 1024
      [] OTHER -> 0

\* The two guard regions subtracted instead of added.
PADDED_FLUSH_BUFFER_SIZE_Sub(v, a) == FLUSH_BUFFER_SIZE(v, a) - VMEM_PADDING(v, a) * 2

PADDED_FLUSH_BUFFER_SIZE(v, a) == FLUSH_BUFFER_SIZE(v, a) + VMEM_PADDING(v, a) * 2

\* The measured copies in the order the loop body issues them:
\* memcpy(output_buffer + dst, buffer + src, size)
Copy(d, s, n) == [dst |-> d, src |-> s, size |-> n]

memcpy_size0 == 401
memcpy_size1 == 801
memcpy_size2 == 301
memcpy_size3 == 501

ThreeCopies ==
    << Copy(0, 102, memcpy_size0),
       Copy(memcpy_size0, 6402, memcpy_size1),
       Copy(memcpy_size0 + memcpy_size1, 16586, memcpy_size2) >>

OneCopy == << Copy(0, 102, memcpy_size0) >>

FourCopies ==
    << Copy(0, 102, memcpy_size0),
       Copy(memcpy_size0, 6402, memcpy_size1),
       Copy(memcpy_size0 + memcpy_size1 + memcpy_size2, 12308, memcpy_size3),
       Copy(memcpy_size0 + memcpy_size1, 16586, memcpy_size2) >>

\* The 501-byte copy placed at memcpy_size0 + memcpy_size1, on top of the 301-byte copy.
MeasuredCopies_Overlap(v) ==
    CASE v \in {CfClflush, StdMemset} -> OneCopy
      [] v = CopiesPad -> [FourCopies EXCEPT ![3].dst = memcpy_size0 + memcpy_size1]
      [] OTHER -> ThreeCopies

MeasuredCopies(v) ==
    CASE v \in {CfClflush, StdMemset} -> OneCopy
      [] v = CopiesPad -> FourCopies
      [] OTHER -> ThreeCopies

----------------------------------------------------------------------------
(* The benchmark loop body of each variant, statement by statement. *)

\* The end timestamp taken after the if block instead of before it.
FlushBody_TimedFlush == <<"fetch", "start", "copies", "if", "memset", "reset", "end", "settime">>

FlushBody == <<"fetch", "start", "copies", "end", "if", "memset", "reset", "settime">>

\* The two VirtualProtect calls in the opposite order.
VmemBody_Swapped == <<"start", "fetch", "copies", "end", "if", "reset", "protect_readwrite",
                      "protect_noaccess", "settime">>

VmemBody == <<"start", "fetch", "copies", "end", "if", "reset", "protect_noaccess",
              "protect_readwrite", "settime">>

RotateBody == <<"fetch", "copies", "if", "reset">>

LoopBody(v) ==
    CASE v \in BulkOverwrite -> FlushBody
      [] v = VmemTlb   -> VmemBody
      [] v \in {Tlb, L3} -> RotateBody
      [] v = Clflush   -> <<"start", "copies", "end", "clflush", "sleep", "settime">>
      [] v = CfClflush -> <<"start", "copies", "end", "clflush", "settime">>
      [] OTHER         -> <<"copies">>

\* An if without its braces: the block runs whether or not the cursor wrapped.
IfBlockLen_Zero(v) == 0

\* The number of statements inside `if (copy_index >= NUM_COPIES) { ... }`
IfBlockLen(v) ==
    CASE v \in BulkOverwrite -> 2
      [] v = VmemTlb -> 3
      [] OTHER -> 1

\* The wrap test written with > instead of >=.
WrapCond_Late(ci, n) == ci > n

\* if (copy_index >= NUM_COPIES)
WrapCond(ci, n) == ci >= n

\* The iterations the harness runs the loop for.
MaxIterations(v, a) == NUM_COPIES(v, a) + MaxExtraIters

----------------------------------------------------------------------------
(* Addresses the allocator may return for input_buffer. *)

HeapBase == <<16, 0>>

BaseOffsets(v) ==
    CASE v \in ExplicitFlush -> 0 .. (CACHE_LINE_SIZE - 1)
      [] v \in {CpuFlush, StdMemset, Padded, Tlb, CopiesPad} -> {16}
      [] OTHER -> {0}

BaseChoices(v) == { WAddN(HeapBase, r) : r \in BaseOffsets(v) }

\* What a byte of input_buffer holds before the program stores into it.
InputInit(v) == IF v = VmemTlb THEN ZeroPage ELSE Indeterminate

----------------------------------------------------------------------------
(* The copies[] array: copies[j] = first + j * stride for j < count. *)

NoCopies == [first |-> W(0), stride |-> 0, count |-> 0]

CopiesAt(c, j) == WAdd(c.first, WMulN(W(c.stride), j))

\* copies[c.count] = p
CopiesPut(c, p) ==
    CASE c.count = 0 -> [first |-> p, stride |-> 0, count |-> 1]
      [] c.count = 1 -> [c EXCEPT !.stride = WCap(WSub(p, c.first), LIMB), !.count = 2]
      [] OTHER       -> [c EXCEPT !.count = c.count + 1]

\* uint8_t* buffer = aligned_input_buffer + (i * SOURCE_SIZE);
ReplicaAddress(v, a, base, k) == WAdd(base, WMulN(W(ReplicaStride(v, a)), k))

----------------------------------------------------------------------------
(* Allocations, releases and the reported counters. *)

heapvars == <<allocs, frees, live, counters>>

\* sizeof(uint8_t*) on the 64-bit build
POINTER_SIZE == 8

\* An allocation call: what it is assigned to, the call, the element type and the
\* size in bytes (two-limb).
Allocation(what, by, of, bytes) == [what |-> what, by |-> by, of |-> of, bytes |-> bytes]

\* state.counters before the function sets them
NoCounters == [Speed |-> -1, NumCopies |-> -1, Allocated |-> W(0)]

\* How input_buffer is allocated.
InputAllocator(v) == IF v = VmemTlb THEN "VirtualAlloc" ELSE "new[]"

\* cache_flushing_flush_std_memset keeps copies[] on the stack.
CopiesOnHeap(v) == v \in Rotating /\ v # StdMemset

----------------------------------------------------------------------------
(* The state at entry of the benchmark function. *)

\* The locals of the function before its first statement.
Entry ==
    /\ pc = "begin"
    /\ ip = 1
    /\ iter = 0
    /\ input_buffer = W(0)
    /\ i = 0
    /\ copies = NoCopies
    /\ source_mem = <<>>
    /\ input_mem = <<>>
    /\ output_mem = <<>>
    /\ flush_mem = <<>>
    /\ flush_value = 0
    /\ copy_index = 0
    /\ buffer = W(0)
    /\ prot = "none"
    /\ flushed = {}
    /\ trace = <<>>
    /\ issued = <<>>
    /\ overwrites = 0
    /\ last_flush = <<Indeterminate, Indeterminate>>
    /\ allocs = <<>>
    /\ frees = <<>>
    /\ live = {}
    /\ counters = NoCounters

\* No byte loop is being followed.
NoCall == [fn |-> "none"]

NoByteCall ==
    /\ call = NoCall
    /\ memory = <<>>
    /\ entry = NoCall
    /\ stores = {}

\* Every registered benchmark with every registered parameter value.
Init ==
    /\ variant \in Variants
    /\ arg \in Args(variant)
    /\ Entry
    /\ NoByteCall

loopvars == <<ip, iter, trace, issued, flushed>>

\* source_buffer = new uint8_t[SOURCE_SIZE]; std::memset(source_buffer, 0xA6, SOURCE_SIZE);
AllocSource ==
    /\ pc = "begin"
    /\ variant \in Rotating
    /\ source_mem' = Memset(<<>>, W(0), SOURCE_SIZE(variant, arg), MARKER)
    /\ allocs' = Append(allocs, Allocation("source_buffer", "new[]", "uint8_t",
                                           W(SOURCE_SIZE(variant, arg))))
    /\ live' = live \cup {"source_buffer"}
    /\ pc' = "alloc_input"
    /\ UNCHANGED <<frees, counters, callvars, variant, arg, input_buffer, i, copies, input_mem, output_mem, flush_mem,
                   flush_value, copy_index, buffer, prot, overwrites, last_flush, loopvars>>

\* input_buffer = new uint8_t[SOURCE_SIZE]; std::memset(input_buffer, 0xA6, SOURCE_SIZE);
\* in the variants without replicas
AllocInput ==
    /\ pc = "begin"
    /\ variant \notin Rotating
    /\ \E b \in BaseChoices(variant) :
          /\ input_buffer' = b
          /\ input_mem' = Memset(<<>>, b, SOURCE_SIZE(variant, arg), MARKER)
    /\ allocs' = Append(allocs, Allocation("input_buffer", "new[]", "uint8_t",
                                           W(SOURCE_SIZE(variant, arg))))
    /\ live' = live \cup {"input_buffer"}
    /\ pc' = "loop"
    /\ UNCHANGED <<frees, counters, callvars, variant, arg, i, copies, source_mem, output_mem, flush_mem,
                   flush_value, copy_index, buffer, prot, overwrites, last_flush, loopvars>>

\* input_buffer = new uint8_t[INPUT_BUFFER_SIZE] (VirtualAlloc in memcpy_vmem_tlb_flush);
\* copies = new uint8_t*[NUM_COPIES];
AllocReplicasFrom(bases) ==
    /\ pc = "alloc_input"
    /\ \E b \in bases : input_buffer' = b
    /\ prot' = IF variant = VmemTlb THEN "readwrite" ELSE prot
    /\ i' = 0
    /\ copies' = NoCopies
    /\ LET input == Allocation("input_buffer", InputAllocator(variant), "uint8_t",
                               INPUT_BUFFER_SIZE(variant, arg))
           array == Allocation("copies", "new[]", "uint8_t*",
                               W(NUM_COPIES(variant, arg) * POINTER_SIZE))
       IN  IF CopiesOnHeap(variant)
           THEN /\ allocs' = allocs \o <<input, array>>
                /\ live' = live \cup {"input_buffer", "copies"}
           ELSE /\ allocs' = Append(allocs, input)
                /\ live' = live \cup {"input_buffer"}
    /\ pc' = "populate"
    /\ UNCHANGED <<frees, counters, callvars, variant, arg, source_mem, input_mem, output_mem, flush_mem,
                   flush_value, copy_index, buffer, overwrites, last_flush, loopvars>>

AllocReplicas == AllocReplicasFrom(BaseChoices(variant))

\* A population loop that copies one byte too few.
PopulateSize_Short(v, a) == SOURCE_SIZE(v, a) - 1

\* The bytes one pass of the population loop copies into a replica.
PopulateSize(v, a) == SOURCE_SIZE(v, a)

\* One pass of for (size_t i = 0; i < NUM_COPIES; ++i) { memcpy; copies[i] = buffer; };
\* the pass that ends the loop goes on to the statements after it.
Populate ==
    /\ pc = "populate"
    /\ i < NUM_COPIES(variant, arg)
    /\ LET b == ReplicaAddress(variant, arg, aligned_input_buffer, i)
       IN  /\ input_mem' = Memcpy(input_mem, b, source_mem, Indeterminate, W(0),
                                  PopulateSize(variant, arg))
           /\ copies' = CopiesPut(copies, b)
    /\ i' = i + 1
    /\ pc' = IF i + 1 < NUM_COPIES(variant, arg) THEN "populate"
             ELSE IF variant \in BulkOverwrite THEN "alloc_flush" ELSE "loop"
    /\ UNCHANGED <<heapvars, callvars, variant, arg, input_buffer, source_mem, output_mem, flush_mem,
                   flush_value, copy_index, buffer, prot, overwrites, last_flush, loopvars>>

\* The overwrite started at flush_buffer, in the front guard region.
FlushTarget_Base(v, a) == 0

\* The offset in the flush allocation the overwrite starts at:
\* memset_impl(flush_buffer + VMEM_PADDING, ...); flush_buffer itself without padding.
FlushTarget(v, a) == VMEM_PADDING(v, a)

\* flush_value passed without the increment.
NextFlushValue_Stuck(v) == v

\* uint8_t flush_value++ (8 bits)
NextFlushValue(v) == (v + 1) % 256

\* memset_impl(flush_buffer + VMEM_PADDING, FLUSH_BUFFER_SIZE, flush_value++)
\* (std::memset in cache_flushing_flush_std_memset)
Overwrite ==
    /\ flush_mem' = Memset(flush_mem, W(FlushTarget(variant, arg)),
                           FLUSH_BUFFER_SIZE(variant, arg), flush_value)
    /\ flush_value' = NextFlushValue(flush_value)
    /\ overwrites' = overwrites + 1
    /\ last_flush' = << ByteAt(flush_mem, Indeterminate, W(FlushTarget(variant, arg))),
                        ByteAt(flush_mem', Indeterminate, W(FlushTarget(variant, arg))) >>

\* flush_buffer = new uint8_t[...]; flush_value = 0; output_buffer; copy_index = 0;
AllocFlush ==
    /\ pc = "alloc_flush"
    /\ flush_mem' = <<>>
    /\ flush_value' = 0
    /\ copy_index' = 0
    /\ allocs' = Append(allocs, Allocation("flush_buffer", "new[]", "uint8_t",
                                           W(PADDED_FLUSH_BUFFER_SIZE(variant, arg))))
    /\ live' = live \cup {"flush_buffer"}
    /\ pc' = "first_flush"
    /\ UNCHANGED <<frees, counters, callvars, variant, arg, input_buffer, i, copies, source_mem, input_mem, output_mem,
                   buffer, prot, overwrites, last_flush, loopvars>>

\* The overwrite before the benchmark loop.
FirstFlush ==
    /\ pc = "first_flush"
    /\ Overwrite
    /\ pc' = "loop"
    /\ UNCHANGED <<heapvars, callvars, variant, arg, input_buffer, i, copies, source_mem, input_mem, output_mem,
                   copy_index, buffer, prot, loopvars>>

----------------------------------------------------------------------------
(* The statements of the benchmark loop.  ip = 1 is the iteration boundary:  *)
(* iter iterations were started and all of them have completed.             *)

At(tag) ==
    /\ pc = "loop"
    /\ LoopBody(variant)[ip] = tag
    /\ ip = 1 => iter < MaxIterations(variant, arg)

Advance(tag, next) ==
    /\ ip' = IF next > Len(LoopBody(variant)) THEN 1 ELSE next
    /\ iter' = IF ip = 1 THEN iter + 1 ELSE iter
    /\ trace' = IF ip = 1 THEN <<tag>> ELSE Append(trace, tag)

\* The value a per-iteration record has when a statement starts: empty at the
\* first statement of an iteration.
Fresh(x, empty) == IF ip = 1 THEN empty ELSE x

\* uint8_t* buffer = copies[copy_index++];
Fetch ==
    /\ At("fetch")
    /\ buffer' = CopiesAt(copies, copy_index)
    /\ copy_index' = copy_index + 1
    /\ Advance("fetch", ip + 1)
    /\ issued' = Fresh(issued, <<>>)
    /\ flushed' = Fresh(flushed, {})
    /\ UNCHANGED <<heapvars, callvars, variant, arg, pc, input_buffer, i, copies, source_mem, input_mem,
                   output_mem, flush_mem, flush_value, prot, overwrites, last_flush>>

\* const auto start / end = high_resolution_clock::now(); state.SetIterationTime(...);
\* std::this_thread::sleep_for(...)
Timing(tag) ==
    /\ At(tag)
    /\ Advance(tag, ip + 1)
    /\ issued' = Fresh(issued, <<>>)
    /\ flushed' = Fresh(flushed, {})
    /\ UNCHANGED <<heapvars, callvars, variant, arg, pc, input_buffer, i, copies, source_mem, input_mem,
                   output_mem, flush_mem, flush_value, copy_index, buffer, prot,
                   overwrites, last_flush>>

Start == Timing("start")

End == Timing("end")

SetIterationTime == Timing("settime")

Sleep == Timing("sleep")

\* The pointer the measured copies read from.
ReadBase == IF variant \in Rotating THEN buffer ELSE input_buffer

RECURSIVE DoCopies(_, _, _, _, _, _)
DoCopies(out, list, k, mem, init, base) ==
    IF k > Len(list) THEN out
    ELSE DoCopies(Memcpy(out, W(list[k].dst), mem, init, WAddN(base, list[k].src),
                         list[k].size),
                  list, k + 1, mem, init, base)

\* The measured memcpy calls of one iteration, in the order they are issued.
\* Reading pages whose access was revoked ends the process.
Copies ==
    /\ At("copies")
    /\ IF prot = "noaccess"
       THEN /\ pc' = "crashed"
            /\ UNCHANGED <<output_mem, ip, iter, trace>>
            /\ issued' = issued
       ELSE /\ output_mem' = DoCopies(output_mem, MeasuredCopies(variant), 1, input_mem,
                                      InputInit(variant), ReadBase)
            /\ Advance("copies", ip + 1)
            /\ issued' = MeasuredCopies(variant)
            /\ pc' = pc
    /\ flushed' = Fresh(flushed, {})
    /\ UNCHANGED <<heapvars, callvars, variant, arg, input_buffer, i, copies, source_mem, input_mem,
                   flush_mem, flush_value, copy_index, buffer, prot, overwrites, last_flush>>

\* if (copy_index >= NUM_COPIES): enter the block or skip it
If ==
    /\ At("if")
    /\ Advance("if", IF WrapCond(copy_index, NUM_COPIES(variant, arg))
                     THEN ip + 1 ELSE ip + 1 + IfBlockLen(variant))
    /\ UNCHANGED <<heapvars, callvars, variant, arg, pc, input_buffer, i, copies, source_mem, input_mem,
                   output_mem, flush_mem, flush_value, copy_index, buffer, prot,
                   overwrites, last_flush, issued, flushed>>

\* A reset that restarts the rotation at the second replica.
ResetValue_One == 0 + 1

\* copy_index = 0;
ResetValue == 0

Reset ==
    /\ At("reset")
    /\ copy_index' = ResetValue
    /\ Advance("reset", ip + 1)
    /\ UNCHANGED <<heapvars, callvars, variant, arg, pc, input_buffer, i, copies, source_mem, input_mem,
                   output_mem, flush_mem, flush_value, buffer, prot,
                   overwrites, last_flush, issued, flushed>>

\* An overwrite at the wrap that lands on the replicas instead of the flush region.
Flush_IntoReplicas ==
    /\ At("memset")
    /\ input_mem' = Memset(input_mem, CopiesAt(copies, 0), FLUSH_BUFFER_SIZE(variant, arg),
                           flush_value)
    /\ flush_value' = NextFlushValue(flush_value)
    /\ overwrites' = overwrites + 1
    /\ Advance("memset", ip + 1)
    /\ UNCHANGED <<heapvars, callvars, variant, arg, pc, input_buffer, i, copies, source_mem, flush_mem,
                   output_mem, copy_index, buffer, prot, issued, flushed, last_flush>>

\* The overwrite inside the if block.
Flush ==
    /\ At("memset")
    /\ Overwrite
    /\ Advance("memset", ip + 1)
    /\ UNCHANGED <<heapvars, callvars, variant, arg, pc, input_buffer, i, copies, source_mem, input_mem,
                   output_mem, copy_index, buffer, prot, issued, flushed>>

\* VirtualProtect(input_buffer, INPUT_BUFFER_SIZE, newProtect, nullptr)
VirtualProtect(tag, newProtect) ==
    /\ At(tag)
    /\ prot' = newProtect
    /\ Advance(tag, ip + 1)
    /\ UNCHANGED <<heapvars, callvars, variant, arg, pc, input_buffer, i, copies, source_mem, input_mem,
                   output_mem, flush_mem, flush_value, copy_index, buffer,
                   overwrites, last_flush, issued, flushed>>

ProtectNoAccess == VirtualProtect("protect_noaccess", "noaccess")

ProtectReadWrite == VirtualProtect("protect_readwrite", "readwrite")

\* A flush loop that advances two cache lines at a time.
FlushStep_Double == 2 * CACHE_LINE_SIZE

\* for (ptr = input_buffer; ptr < input_buffer + SOURCE_SIZE; ptr += CACHE_LINE_SIZE)
\*     _mm_clflush(ptr);
FlushStep == CACHE_LINE_SIZE

\* A flush loop that stops half way through the buffer.
FlushLoop_Half(base, size, step) ==
    { WDivMod(WAddN(base, k * step), CACHE_LINE_SIZE)[1] :
        k \in { j \in 0 .. (size \div step) : j * step < size \div 2 } }

\* The loop visits ptr = base + k * step for every k with base + k * step < base + size;
\* the result is the set of cache lines (address \div 64) a flush was issued for.
FlushLoop(base, size, step) ==
    { WDivMod(WAddN(base, k * step), CACHE_LINE_SIZE)[1] :
        k \in { j \in 0 .. (size \div step) : j * step < size } }

ClflushLoop ==
    /\ At("clflush")
    /\ flushed' = FlushLoop(input_buffer, SOURCE_SIZE(variant, arg), FlushStep)
    /\ Advance("clflush", ip + 1)
    /\ UNCHANGED <<heapvars, callvars, variant, arg, pc, input_buffer, i, copies, source_mem, input_mem,
                   output_mem, flush_mem, flush_value, copy_index, buffer, prot,
                   overwrites, last_flush, issued>>

\* The fewest iterations the harness runs the loop for.
MinIterations(v, a) == IF NUM_COPIES(v, a) > 1 THEN NUM_COPIES(v, a) ELSE 1

\* The harness ends the loop, after any number of iterations it may choose.
Finish ==
    /\ pc = "loop"
    /\ ip = 1
    /\ iter >= MinIterations(variant, arg)
    /\ iter <= MaxIterations(variant, arg)
    /\ pc' = "done"
    /\ UNCHANGED <<heapvars, callvars, variant, arg, input_buffer, i, copies, source_mem, input_mem,
                   output_mem, flush_mem, flush_value, copy_index, buffer, prot,
                   overwrites, last_flush, loopvars>>

----------------------------------------------------------------------------
(* After the loop: the release calls in source order, then the counters. *)

Release(what, by) == [what |-> what, by |-> by]

\* delete[] source_buffer; delete[] input_buffer / VirtualFree(input_buffer, ...);
\* delete[] copies; delete[] flush_buffer;
Releases(v) ==
    CASE v \in {CpuFlush, Padded, CopiesPad} ->
            << Release("source_buffer", "delete[]"), Release("input_buffer", "delete[]"),
               Release("copies", "delete[]"), Release("flush_buffer", "delete[]") >>
      [] v = StdMemset ->
            << Release("source_buffer", "delete[]"), Release("input_buffer", "delete[]"),
               Release("flush_buffer", "delete[]") >>
      [] v \in {Tlb, L3} ->
            << Release("source_buffer", "delete[]"), Release("input_buffer", "delete[]"),
               Release("copies", "delete[]") >>
      [] v = VmemTlb ->
            << Release("source_buffer", "delete[]"), Release("input_buffer", "VirtualFree"),
               Release("copies", "delete[]") >>
      [] OTHER -> << Release("input_buffer", "delete[]") >>

\* The call that allocated `what`.
AllocatedBy(what) ==
    LET k == CHOOSE j \in 1 .. Len(allocs) : allocs[j].what = what IN allocs[k].by

\* The next release call, when the function is past its loop.
NextRelease == Releases(variant)[Len(frees) + 1]

\* delete[] p releases an array that new[] returned and that is still allocated.
Delete ==
    /\ pc = "done"
    /\ Len(frees) < Len(Releases(variant))
    /\ NextRelease.by = "delete[]"
    /\ LET ok == NextRelease.what \in live /\ AllocatedBy(NextRelease.what) = "new[]"
       IN  /\ frees' = Append(frees, [what |-> NextRelease.what, by |-> "delete[]",
                                      released |-> ok])
           /\ live' = IF ok THEN live \ {NextRelease.what} ELSE live
    /\ UNCHANGED <<allocs, counters, callvars, variant, arg, pc, input_buffer, i, copies, source_mem,
                   input_mem, output_mem, flush_mem, flush_value, copy_index, buffer, prot,
                   overwrites, last_flush, loopvars>>

\* VirtualFree(lpAddress, dwSize, MEM_RELEASE) releases the region only when
\* dwSize is 0 and lpAddress is the base VirtualAlloc returned; with any other
\* dwSize the call fails and the region stays allocated.
VirtualFreeReleases(dwSize, dwFreeType) == dwFreeType = "MEM_RELEASE" => dwSize = W(0)

\* VirtualFree(input_buffer, INPUT_BUFFER_SIZE, MEM_RELEASE);
VirtualFree ==
    /\ pc = "done"
    /\ Len(frees) < Len(Releases(variant))
    /\ NextRelease.by = "VirtualFree"
    /\ LET ok == /\ NextRelease.what \in live
                 /\ AllocatedBy(NextRelease.what) = "VirtualAlloc"
                 /\ VirtualFreeReleases(INPUT_BUFFER_SIZE(variant, arg), "MEM_RELEASE")
       IN  /\ frees' = Append(frees, [what |-> NextRelease.what, by |-> "VirtualFree",
                                      released |-> ok])
           /\ live' = IF ok THEN live \ {NextRelease.what} ELSE live
    /\ UNCHANGED <<allocs, counters, callvars, variant, arg, pc, input_buffer, i, copies, source_mem,
                   input_mem, output_mem, flush_mem, flush_value, copy_index, buffer, prot,
                   overwrites, last_flush, loopvars>>

\* double(x) of a size_t x below 2^55: exact below 2^53, else rounded to the
\* nearest multiple of 2 (below 2^54) or 4, ties to even.
ToDouble(w) ==
    LET q == IF w[1] < 536870912 THEN 1 ELSE IF w[1] < 1073741824 THEN 2 ELSE 4
        r == w[2] % q
        dn == w[2] - r
        up == (2 * r > q) \/ (2 * r = q /\ (dn \div q) % 2 = 1)
    IN  IF r = 0 THEN w ELSE WNorm(w[1], IF up THEN dn + q ELSE dn)

\* state.counters["Speed"] = benchmark::Counter(1503, kIsIterationInvariantRate, ...)
SpeedCounter == 1503

\* The size_t expression passed to state.counters["Allocated"].
AllocatedExpr(v, a) ==
    CASE v \in {CpuFlush, StdMemset} ->
            WAdd(W(FLUSH_BUFFER_SIZE(v, a)), INPUT_BUFFER_SIZE(v, a))
      [] v \in {Padded, CopiesPad} ->
            WAdd(W(PADDED_FLUSH_BUFFER_SIZE(v, a)), INPUT_BUFFER_SIZE(v, a))
      [] v \in {Tlb, L3, VmemTlb} -> INPUT_BUFFER_SIZE(v, a)
      [] OTHER -> W(SOURCE_SIZE(v, a))

\* The number of iterations run reported in place of the replica count.
NumCopiesExpr_Iterations(v, a) == iter

\* The value passed to state.counters["NumCopies"]: NUM_COPIES, the literal 1 in
\* the variants without replicas.
NumCopiesExpr(v, a) == IF v \in Rotating THEN NUM_COPIES(v, a) ELSE 1

\* state.counters["Speed"], ["NumCopies"], ["Allocated"]; the function returns.
ReportCounters ==
    /\ pc = "done"
    /\ Len(frees) = Len(Releases(variant))
    /\ counters' = [Speed |-> SpeedCounter,
                    NumCopies |-> NumCopiesExpr(variant, arg),
                    Allocated |-> ToDouble(AllocatedExpr(variant, arg))]
    /\ pc' = "returned"
    /\ UNCHANGED <<allocs, frees, live, callvars, variant, arg, input_buffer, i, copies, source_mem,
                   input_mem, output_mem, flush_mem, flush_value, copy_index, buffer, prot,
                   overwrites, last_flush, loopvars>>

Next ==
    \/ AllocSource
    \/ AllocInput
    \/ AllocReplicas
    \/ Populate
    \/ AllocFlush
    \/ FirstFlush
    \/ Fetch
    \/ Start
    \/ Copies
    \/ End
    \/ If
    \/ Flush
    \/ Reset
    \/ ProtectNoAccess
    \/ ProtectReadWrite
    \/ ClflushLoop
    \/ Sleep
    \/ SetIterationTime
    \/ Finish
    \/ Delete
    \/ VirtualFree
    \/ ReportCounters

Spec == Init /\ [][Next]_vars

----------------------------------------------------------------------------
(* Vocabulary of the properties. *)

InTrace(tag) == \E k \in 1 .. Len(trace) : trace[k] = tag

\* The program is between two iterations of the benchmark loop.
AtBoundary == pc = "loop" /\ ip = 1

N == NUM_COPIES(variant, arg)

\* Byte k of the n bytes at a in memA equals byte k of the n bytes at b in memB.
RECURSIVE RangesEqual(_, _, _, _, _, _, _)
RangesEqual(memA, initA, a, memB, initB, b, n) ==
    IF n = 0 THEN TRUE
    ELSE LET m == Min(RunLen(memA, a, n), RunLen(memB, b, n))
         IN  /\ ByteAt(memA, initA, a) = ByteAt(memB, initB, b)
             /\ RangesEqual(memA, initA, WAddN(a, m), memB, initB, WAddN(b, m), n - m)

RECURSIVE SumSizes(_, _)
SumSizes(list, k) == IF k = 0 THEN 0 ELSE list[k].size + SumSizes(list, k - 1)

----------------------------------------------------------------------------
(* C1 *)

\* C1: every measured copy reads inside the replica it was given: source offset
\* plus size does not exceed the replica size SOURCE_SIZE the variant computes.
\* memcpy_vmem_tlb_flush computes SOURCE_SIZE = 1 and violates this.
C1_ReadsInsideReplica ==
    \A k \in 1 .. Len(issued) :
        issued[k].src + issued[k].size <= SOURCE_SIZE(variant, arg)

----------------------------------------------------------------------------
(* C2 *)

\* C2: every byte a measured copy wrote into the output buffer is the source
\* marker 0xA6.  memcpy_vmem_tlb_flush copies bytes the population loop never
\* stored (zero pages) and violates this.
C2_OutputHoldsMarker ==
    \A k \in 1 .. Len(issued) :
        RangeIs(output_mem, Indeterminate, W(issued[k].dst), issued[k].size, MARKER)

----------------------------------------------------------------------------
(* C3 *)

\* The loop is entered and no iteration has started.
Prepared == AtBoundary /\ iter = 0 /\ variant \in Rotating

\* C3: copy fidelity: after the population loop and before the first measured
\* copy, the SOURCE_SIZE bytes at copies[j] equal the bytes of source_buffer,
\* for every j < NUM_COPIES.
C3_CopyFidelity ==
    Prepared =>
        /\ copies.count = N
        /\ \A j \in 0 .. (N - 1) :
              RangesEqual(input_mem, InputInit(variant), CopiesAt(copies, j),
                          source_mem, Indeterminate, W(0), SOURCE_SIZE(variant, arg))

C3_Witness ==
    /\ Prepared
    /\ variant = CopiesPad
    /\ arg = 4 * 1024
    /\ copies.count = 1000
    /\ ByteAt(input_mem, Indeterminate, WAddN(CopiesAt(copies, 999), 17233)) = MARKER

----------------------------------------------------------------------------
(* C4 *)

\* C4 as stated: 0 <= copy_index < NUM_COPIES in every reachable state.
C4_CursorBelowCountAlways ==
    (variant \in Rotating /\ pc = "loop") => (0 <= copy_index /\ copy_index < N)

\* C4 amended: 0 <= copy_index <= NUM_COPIES in every state; copy_index <
\* NUM_COPIES at every iteration boundary and whenever copies[copy_index] is
\* about to be read; copy_index = NUM_COPIES only between the fetch of the
\* last replica and the reset of the same iteration.
C4_CursorRange ==
    (variant \in Rotating /\ pc = "loop") =>
        /\ 0 <= copy_index /\ copy_index <= N
        /\ ip = 1 => copy_index < N
        /\ LoopBody(variant)[ip] = "fetch" => copy_index < N
        /\ copy_index = N => (InTrace("fetch") /\ ~InTrace("reset"))

C4_Witness ==
    /\ variant \in Rotating
    /\ pc = "loop"
    /\ copy_index = N
    /\ InTrace("copies")

----------------------------------------------------------------------------
(* C5 *)

Eviction == {CpuFlush, StdMemset, Padded, CopiesPad, VmemTlb}

\* The eviction statements of the variant all ran in the current iteration.
Evicted ==
    IF variant = VmemTlb
    THEN InTrace("protect_noaccess") /\ InTrace("protect_readwrite")
    ELSE InTrace("memset")

\* C5: the replica read in iteration k (from 0) is copies[k mod NUM_COPIES];
\* at the end of every iteration the cursor is (k + 1) mod NUM_COPIES, and in
\* the eviction variants the iteration that read replica NUM_COPIES - 1 has
\* reset the cursor and run the eviction before the next iteration starts.
C5_RotationOrder ==
    (variant \in Rotating /\ pc = "loop") =>
        /\ InTrace("fetch") => buffer = CopiesAt(copies, (iter - 1) % N)
        /\ ip = 1 => copy_index = iter % N
        /\ (ip = 1 /\ iter > 0 /\ variant \in Eviction) =>
              (((iter - 1) % N = N - 1) <=> (Evicted /\ InTrace("reset")))

C5_Witness ==
    /\ variant \in Eviction
    /\ AtBoundary
    /\ iter = N
    /\ Evicted
    /\ copy_index = 0
    /\ buffer = CopiesAt(copies, N - 1)

----------------------------------------------------------------------------
(* C6 *)

\* C6: in the bulk-overwrite variants the flush buffer is overwritten once before
\* the first iteration and then only in iterations where the cursor wraps: after
\* k completed iterations 1 + k \div NUM_COPIES overwrites have run, and an
\* iteration that does not wrap runs none.
C6_EvictionAmortised ==
    (variant \in BulkOverwrite /\ pc = "loop") =>
        /\ ip = 1 => overwrites = 1 + (iter \div N)
        /\ InTrace("memset") => (iter > 0 /\ iter % N = 0)
        /\ iter > 0 =>
              overwrites = 1 + ((iter - 1) \div N) + (IF InTrace("memset") THEN 1 ELSE 0)

C6_Witness ==
    /\ variant \in BulkOverwrite
    /\ AtBoundary
    /\ iter = N + 1
    /\ overwrites = 2
    /\ ~InTrace("memset")

----------------------------------------------------------------------------
(* C8 *)

\* The copies of the iteration write pairwise disjoint regions of output_buffer.
OutputDisjoint ==
    \A j, k \in 1 .. Len(issued) :
        j < k => \/ issued[j].dst + issued[j].size <= issued[k].dst
                 \/ issued[k].dst + issued[k].size <= issued[j].dst

\* Every region starts at offset 0 or where another region ends, and ends inside
\* the sum of the sizes: with disjointness, the regions tile [0, sum of sizes).
OutputContiguous ==
    \A k \in 1 .. Len(issued) :
        /\ \/ issued[k].dst = 0
           \/ \E j \in 1 .. Len(issued) : issued[j].dst + issued[j].size = issued[k].dst
        /\ issued[k].dst + issued[k].size <= SumSizes(issued, Len(issued))

\* Each copy lands at the sum of the sizes of the copies issued before it.
RunningSumInIssueOrder ==
    \A k \in 1 .. Len(issued) : issued[k].dst = SumSizes(issued, k - 1)

\* The bytes of output_buffer stored so far are exactly the first `total` bytes.
RECURSIVE AllStored(_, _, _)
AllStored(mem, a, n) ==
    IF n = 0 THEN TRUE
    ELSE LET m == RunLen(mem, a, n)
         IN  ByteAt(mem, Indeterminate, a) # Indeterminate /\ AllStored(mem, WAddN(a, m), n - m)

OutputFootprint(total) ==
    /\ total <= OUTPUT_BUFFER_SIZE
    /\ AllStored(output_mem, W(0), total)
    /\ RangeIs(output_mem, Indeterminate, W(total), OUTPUT_BUFFER_SIZE - total, Indeterminate)

\* The measured copies of the current iteration have just been issued.
JustCopied == pc = "loop" /\ trace # <<>> /\ trace[Len(trace)] = "copies"

\* C8 as stated: in every variant the copies of one iteration are disjoint,
\* contiguous from offset 0, and each lands at the running sum of the sizes of
\* the copies issued before it.
C8_RunningSumEveryVariant ==
    JustCopied => (OutputDisjoint /\ OutputContiguous /\ RunningSumInIssueOrder)

\* C8 amended: in every variant the copies of one iteration write pairwise
\* disjoint regions that tile output_buffer from offset 0 (1503 bytes; 2004 in
\* memcpy_copies_padded); each copy lands at the running sum of the sizes issued
\* before it in every variant but memcpy_copies_padded, whose four copies
\* (401, 801, 501, 301 bytes in issue order) land at 0, 401, 1503, 1202.
C8_OutputLayout ==
    JustCopied =>
        /\ OutputDisjoint
        /\ OutputContiguous
        /\ OutputFootprint(SumSizes(issued, Len(issued)))
        /\ variant # CopiesPad => RunningSumInIssueOrder
        /\ variant = CopiesPad =>
              [k \in 1 .. 4 |-> issued[k].dst] = <<0, 401, 1503, 1202>>
        /\ SumSizes(issued, Len(issued)) =
              CASE variant = CopiesPad -> 2004
                [] variant \in {CfClflush, StdMemset} -> 401
                [] OTHER -> 1503

C8_Witness ==
    /\ JustCopied
    /\ variant = CopiesPad
    /\ Len(issued) = 4
    /\ issued[3].dst = 1503 /\ issued[3].size = 501
    /\ issued[4].dst = 1202 /\ issued[4].size = 301
    /\ ByteAt(output_mem, Indeterminate, W(2003)) = MARKER

----------------------------------------------------------------------------
(* C9 *)

\* trace[k] = "protect_readwrite" exactly when trace[k - 1] = "protect_noaccess"
RevokeRestorePaired ==
    \A k \in 1 .. Len(trace) :
        /\ trace[k] = "protect_readwrite" => (k > 1 /\ trace[k - 1] = "protect_noaccess")
        /\ (trace[k] = "protect_noaccess" /\ k < Len(trace)) =>
              trace[k + 1] = "protect_readwrite"

----------------------------------------------------------------------------
(* C10 *)

\* The cache lines that overlap the size bytes at base.
LinesOverlapping(base, size) ==
    WDivMod(base, CACHE_LINE_SIZE)[1] .. WDivMod(WAddN(base, size - 1), CACHE_LINE_SIZE)[1]

BaseResidue == WDivMod(input_buffer, CACHE_LINE_SIZE)[2]

\* C10 as stated: after each measured copy the flush loop issues a flush for
\* every cache line that overlaps the input buffer, for every base alignment.
C10_EveryLineFlushed ==
    (variant \in ExplicitFlush /\ InTrace("clflush")) =>
        LinesOverlapping(input_buffer, SOURCE_SIZE(variant, arg)) \subseteq flushed

\* C10 amended: the flush loop issues a flush for the line of every address
\* input_buffer + 64 * k below input_buffer + 17234 (270 lines).  That is every
\* line overlapping the buffer when the base address modulo 64 is at most 46;
\* when it is 47..63 the last overlapping line is the only one not flushed.
C10_FlushCoverage ==
    (variant \in ExplicitFlush /\ InTrace("clflush")) =>
        LET lines == LinesOverlapping(input_buffer, SOURCE_SIZE(variant, arg))
            first == WDivMod(input_buffer, CACHE_LINE_SIZE)[1]
            last == WDivMod(WAddN(input_buffer, SOURCE_SIZE(variant, arg) - 1),
                            CACHE_LINE_SIZE)[1]
        IN  /\ flushed = first .. (first + 269)
            /\ BaseResidue <= 46 => (last = first + 269 /\ lines \subseteq flushed)
            /\ BaseResidue >= 47 => (last = first + 270 /\ lines \ flushed = {last})

C10_Witness ==
    /\ variant \in ExplicitFlush
    /\ InTrace("clflush")
    /\ BaseResidue = 48
    /\ Cardinality(flushed) = 270
    /\ WDivMod(WAddN(input_buffer, 17233), CACHE_LINE_SIZE)[1] \notin flushed

----------------------------------------------------------------------------
(* A parameter value of 0, which no BENCHMARK registration passes: the        *)
(* functions that size their replica set from state.range(0), run on 0.      *)

ZeroVariants == {Tlb, L3, VmemTlb}

InitZero ==
    /\ variant \in ZeroVariants
    /\ arg = 0
    /\ Entry
    /\ NoByteCall

\* SOURCE_SIZE = (17234 + PADDING_SIZE - 1) / PADDING_SIZE with PADDING_SIZE = 0:
\* the integer division traps and ends the process.
DivideByZero ==
    /\ pc = "begin"
    /\ variant = VmemTlb
    /\ PADDING_SIZE(arg) = 0
    /\ pc' = "crashed"
    /\ UNCHANGED <<heapvars, callvars, variant, arg, input_buffer, i, copies, source_mem, input_mem,
                   output_mem, flush_mem, flush_value, copy_index, buffer, prot,
                   overwrites, last_flush, loopvars>>

\* for (size_t i = 0; i < NUM_COPIES; ++i) with NUM_COPIES = 0: no pass runs.
PopulateNone ==
    /\ pc = "populate"
    /\ ~(i < NUM_COPIES(variant, arg))
    /\ pc' = "loop"
    /\ UNCHANGED <<heapvars, callvars, variant, arg, input_buffer, i, copies, source_mem, input_mem,
                   output_mem, flush_mem, flush_value, copy_index, buffer, prot,
                   overwrites, last_flush, loopvars>>

\* What a read past the end of copies[] may yield: a null pointer, pointers into
\* the heap, a pointer to unmapped memory.
WildPointers == {W(0), HeapBase, WAddN(HeapBase, PAGE_SIZE), <<LIMB - 1, 0>>}

\* uint8_t* buffer = copies[copy_index++]; with copy_index outside the array:
\* nothing checks the index, the read yields whatever lies behind the array.
FetchOutOfBounds ==
    /\ At("fetch")
    /\ copy_index >= copies.count
    /\ buffer' \in WildPointers
    /\ copy_index' = copy_index + 1
    /\ Advance("fetch", ip + 1)
    /\ issued' = Fresh(issued, <<>>)
    /\ flushed' = Fresh(flushed, {})
    /\ UNCHANGED <<heapvars, callvars, variant, arg, pc, input_buffer, i, copies, source_mem, input_mem,
                   output_mem, flush_mem, flush_value, prot, overwrites, last_flush>>

\* The measured copies read through a pointer that is no replica: the read may
\* fault and end the process (when it does not, Copies runs on whatever bytes
\* are there).
WildReadFault ==
    /\ At("copies")
    /\ variant \in Rotating
    /\ \A j \in 0 .. (copies.count - 1) : buffer # CopiesAt(copies, j)
    /\ pc' = "crashed"
    /\ UNCHANGED <<heapvars, callvars, variant, arg, input_buffer, i, copies, source_mem, input_mem,
                   output_mem, flush_mem, flush_value, copy_index, buffer, prot,
                   overwrites, last_flush, loopvars>>

NextZero ==
    \/ (variant # VmemTlb /\ AllocSource)
    \/ DivideByZero
    \/ AllocReplicas
    \/ PopulateNone
    \/ FetchOutOfBounds
    \/ Copies
    \/ WildReadFault
    \/ If
    \/ Reset
    \/ Finish
    \/ Delete
    \/ ReportCounters

SpecZero == InitZero /\ [][NextZero]_vars

----------------------------------------------------------------------------
(* C18 *)

\* C18: a parameter value that gives a zero-sized replica set or allocation
\* ends in a failure before any measured copy runs: copies[copy_index] is
\* never read when NUM_COPIES is 0, no measured copy is issued, and the run
\* never returns reporting counters.  memcpy_tlb and memcpy_32mb_l3 check
\* nothing and read copies[0] of an empty array.
C18_ZeroSizedRunFails ==
    (variant \in ZeroVariants /\ arg = 0) =>
        /\ ~InTrace("fetch")
        /\ issued = <<>>
        /\ pc # "returned"

----------------------------------------------------------------------------
(* C11 *)

\* The bytes allocated for `what`.
BytesOf(what) ==
    LET k == CHOOSE j \in 1 .. Len(allocs) : allocs[j].what = what IN allocs[k].bytes

Allocated(what) == \E k \in 1 .. Len(allocs) : allocs[k].what = what

\* C11: in memcpy_32mb_l3 the replica buffer holds only as many 17234-byte
\* replicas as fit in the assumed cache size: NUM_COPIES * 17234 =
\* INPUT_BUFFER_SIZE <= arg MiB, and one more replica would exceed it.
\* The code divides the cache size by 1503 and violates this.
C11_ReplicasFitCache ==
    (variant = L3 /\ Allocated("input_buffer")) =>
        /\ BytesOf("input_buffer") = WMulN(W(17234), N)
        /\ WLeq(BytesOf("input_buffer"), W(arg * 1024 * 1024))
        /\ WLess(W(arg * 1024 * 1024), WAddN(BytesOf("input_buffer"), 17234))

----------------------------------------------------------------------------
(* C12 *)

Pos(tag) == CHOOSE k \in 1 .. Len(trace) : trace[k] = tag

\* The statements of the current iteration executed after its start timestamp
\* and before its end timestamp.
Timed ==
    IF ~InTrace("start") THEN <<>>
    ELSE SubSeq(trace, Pos("start") + 1,
                IF InTrace("end") THEN Pos("end") - 1 ELSE Len(trace))

EvictionTags == {"clflush", "sleep", "memset", "protect_noaccess", "protect_readwrite"}

\* The eviction statements of an iteration run after its end timestamp, and
\* the iteration is complete (SetIterationTime ran) at the boundary.
EvictionAfterEnd ==
    /\ \A k \in 1 .. Len(trace) :
          trace[k] \in (EvictionTags \cup {"reset"}) => (InTrace("end") /\ Pos("end") < k)
    /\ (AtBoundary /\ iter > 0) =>
          /\ trace[Len(trace)] = "settime"
          /\ variant \in ExplicitFlush => InTrace("clflush")
          /\ (variant \in (BulkOverwrite \cup {VmemTlb}) /\ iter % N = 0) => Evicted

\* C12 as stated: the timed interval contains only the measured copies.
C12_OnlyCopiesTimed ==
    (variant \in ManualTime /\ pc = "loop") =>
        /\ \A k \in 1 .. Len(Timed) : Timed[k] = "copies"
        /\ EvictionAfterEnd

\* C12 amended: between the start and end timestamps of an iteration there is no
\* eviction statement and no cursor reset, and the eviction statements of an
\* iteration have run before the next iteration starts; the timed interval
\* holds the measured copies only, except in memcpy_vmem_tlb_flush, where the
\* fetch `buffer = copies[copy_index++]` is timed too.
C12_TimedInterval ==
    (variant \in ManualTime /\ pc = "loop") =>
        /\ \A k \in 1 .. Len(Timed) :
              Timed[k] \in (IF variant = VmemTlb THEN {"fetch", "copies"} ELSE {"copies"})
        /\ InTrace("end") =>
              Timed = (IF variant = VmemTlb THEN <<"fetch", "copies">> ELSE <<"copies">>)
        /\ EvictionAfterEnd

C12_Witness ==
    /\ variant = CopiesPad
    /\ pc = "loop"
    /\ InTrace("memset")
    /\ InTrace("settime")
    /\ Timed = <<"copies">>
    /\ Pos("end") < Pos("memset")

----------------------------------------------------------------------------
(* C13 *)

PaddedFlush == {Padded, CopiesPad}

\* C13: in the padded-flush variants every eviction overwrite writes exactly the
\* FLUSH_BUFFER_SIZE bytes at [VMEM_PADDING, VMEM_PADDING + FLUSH_BUFFER_SIZE)
\* of the flush allocation of FLUSH_BUFFER_SIZE + 2 * VMEM_PADDING bytes, and
\* no byte of the two guard regions is ever written.
C13_FlushInsideGuards ==
    (variant \in PaddedFlush /\ overwrites > 0) =>
        LET pad == VMEM_PADDING(variant, arg)
            size == FLUSH_BUFFER_SIZE(variant, arg)
        IN  /\ Allocated("flush_buffer")
            /\ BytesOf("flush_buffer") = W(size + 2 * pad)
            /\ \A k \in 1 .. Len(flush_mem) :
                  /\ WLeq(W(pad), flush_mem[k].start)
                  /\ flush_mem[k].count = 1
                  /\ WLeq(WAddN(flush_mem[k].start, flush_mem[k].len), W(pad + size))
            /\ RangeIs(flush_mem, Indeterminate, W(0), pad, Indeterminate)
            /\ RangeIs(flush_mem, Indeterminate, W(pad), size, last_flush[2])
            /\ RangeIs(flush_mem, Indeterminate, W(pad + size), pad, Indeterminate)
            /\ last_flush[2] = (flush_value + 255) % 256

C13_Witness ==
    /\ variant = Padded
    /\ arg = 96
    /\ overwrites = 2
    /\ InTrace("memset")
    /\ ByteAt(flush_mem, Indeterminate, W(96 * 1024 * 1024 - 1)) = Indeterminate
    /\ ByteAt(flush_mem, Indeterminate, W(96 * 1024 * 1024)) = 1
    /\ ByteAt(flush_mem, Indeterminate, W(128 * 1024 * 1024 - 1)) = 1
    /\ ByteAt(flush_mem, Indeterminate, W(128 * 1024 * 1024)) = Indeterminate

----------------------------------------------------------------------------
(* C14 *)

\* The release call that matches an allocation call.
Matching(by) == IF by = "VirtualAlloc" THEN "VirtualFree" ELSE "delete[]"

\* C14: every buffer the invocation allocates is released exactly once before
\* it returns, by the call matching its allocation and so that the memory is
\* actually freed, and no buffer is accessed after its release (release calls
\* are made only after the loop).  In memcpy_vmem_tlb_flush the VirtualFree call
\* passes a non-zero size with MEM_RELEASE and releases nothing.
C14_EveryBufferReleasedOnce ==
    /\ frees # <<>> => pc \in {"done", "returned"}
    /\ pc = "returned" =>
          /\ live = {}
          /\ \A k \in 1 .. Len(allocs) :
                /\ Cardinality({j \in 1 .. Len(frees) : frees[j].what = allocs[k].what}) = 1
                /\ \A j \in 1 .. Len(frees) :
                      frees[j].what = allocs[k].what =>
                          (frees[j].released /\ frees[j].by = Matching(allocs[k].by))

----------------------------------------------------------------------------
(* C15 *)

\* The bytes of the first k allocations that are byte buffers (uint8_t arrays).
RECURSIVE ByteBufferBytes(_)
ByteBufferBytes(k) ==
    IF k = 0 THEN W(0)
    ELSE IF allocs[k].of = "uint8_t" THEN WAdd(ByteBufferBytes(k - 1), allocs[k].bytes)
    ELSE ByteBufferBytes(k - 1)

\* C15: the reported "Allocated" counter equals the total number of bytes the
\* invocation allocated for its byte buffers (source, replica backing and
\* flush buffer).  The variants with a separate source buffer leave its
\* SOURCE_SIZE bytes out of the counter.
C15_AllocatedIsTotal ==
    pc = "returned" => counters.Allocated = ByteBufferBytes(Len(allocs))

----------------------------------------------------------------------------
(* C16 *)

\* C16: in memcpy_copies_padded and memcpy_cpu_flush_padded the reported
\* "Allocated" counter is non-decreasing in the padding parameter over the
\* registered values: the invocation reports at least what an invocation with
\* a smaller padding reports and at most what one with a larger padding
\* reports, and the size is far below 2^64 (its upper limb is below 2^24, the
\* size below 2^48), so the size_t arithmetic does not wrap.
C16_AllocatedMonotone ==
    (variant \in PaddedFlush /\ pc = "returned") =>
        /\ counters.Allocated = AllocatedExpr(variant, arg)
        /\ counters.Allocated[1] < LIMB
        /\ \A a \in Args(variant) :
              /\ a <= arg => WLeq(ToDouble(AllocatedExpr(variant, a)), counters.Allocated)
              /\ a >= arg => WLeq(counters.Allocated, ToDouble(AllocatedExpr(variant, a)))
              /\ a < arg => WLess(ToDouble(AllocatedExpr(variant, a)), counters.Allocated)

C16_Witness ==
    /\ variant = CopiesPad
    /\ arg = 16 * 1024 * 1024
    /\ pc = "returned"
    /\ counters.Allocated = <<1004, 2097152>>
    /\ WLess(ToDouble(AllocatedExpr(CopiesPad, 4 * 1024)), counters.Allocated)

----------------------------------------------------------------------------
(* C17 *)

\* The sizes a variant allocates, in allocation order, from its parameter alone.
SizesFor(v, a) ==
    CASE v \in {CpuFlush, Padded, CopiesPad} ->
            << W(17234), INPUT_BUFFER_SIZE(v, a), W(8 * 1000),
               W(FLUSH_BUFFER_SIZE(v, a) + 2 * VMEM_PADDING(v, a)) >>
      [] v = StdMemset ->
            << W(17234), INPUT_BUFFER_SIZE(v, a), W(FLUSH_BUFFER_SIZE(v, a)) >>
      [] v \in {Tlb, L3, VmemTlb} ->
            << W(SOURCE_SIZE(v, a)), INPUT_BUFFER_SIZE(v, a), W(8 * NUM_COPIES(v, a)) >>
      [] OTHER -> << W(17234) >>

\* The sizes of the buffers the release calls were made for, in call order.
FreedSizes == [k \in 1 .. Len(frees) |-> BytesOf(frees[k].what)]

\* C17: sizing is deterministic: the sequence of buffer sizes allocated, the
\* sequence of buffer sizes released and the Allocated and NumCopies counters
\* of an invocation are functions of the variant and its parameter value
\* alone, whatever number of iterations the harness ran and whatever base
\* address the allocator returned.
C17_SizingDeterministic ==
    pc = "returned" =>
        /\ [k \in 1 .. Len(allocs) |-> allocs[k].bytes] = SizesFor(variant, arg)
        /\ FreedSizes = SizesFor(variant, arg)
        /\ counters.NumCopies = NUM_COPIES(variant, arg)
        /\ counters.Allocated = AllocatedExpr(variant, arg)

C17_Witness ==
    /\ pc = "returned"
    /\ variant = Clflush
    /\ BaseResidue = 37
    /\ iter = 2
    /\ Len(frees) = 1
    /\ counters.Allocated = W(17234)

----------------------------------------------------------------------------
(* C19 *)

\* C19: the reported "Speed" counter (1503) equals the number of bytes the
\* measured copies of one iteration write into output_buffer.  The single-copy
\* variants write 401 bytes and memcpy_copies_padded writes 2004.
C19_SpeedIsBytesCopied ==
    pc = "returned" =>
        /\ issued # <<>>
        /\ counters.Speed = SumSizes(issued, Len(issued))

----------------------------------------------------------------------------
(* C20 *)

\* C20: in memcpy_vmem_tlb_flush SOURCE_SIZE is 17234 rounded up to a multiple
\* of PADDING_SIZE, consecutive replicas start at least PADDING_SIZE bytes
\* apart and the 17234-byte ranges of two replicas never overlap.  The code
\* divides without multiplying back: SOURCE_SIZE is 1.
C20_ReplicaStridePadded ==
    (variant = VmemTlb /\ Prepared) =>
        /\ SOURCE_SIZE(variant, arg) >= 17234
        /\ SOURCE_SIZE(variant, arg) % PADDING_SIZE(arg) = 0
        /\ \A j \in 0 .. (N - 2) :
              LET gap == WSub(CopiesAt(copies, j + 1), CopiesAt(copies, j))
              IN  /\ WLeq(W(PADDING_SIZE(arg)), gap)
                  /\ WLeq(W(17234), gap)


----------------------------------------------------------------------------
(* The replica layout for many base addresses: the variants that align      *)
(* input_buffer, every registered argument, the allocator returning bases   *)
(* at, just below and just above each alignment boundary, the population   *)
(* loop taken as one step and the first iterations of the benchmark loop.  *)

\* The iterations of the benchmark loop that are followed.
MaxLayoutIters == 3

\* Variants that round input_buffer up to an alignment.
Aligning == {CpuFlush, StdMemset, Padded, Tlb, CopiesPad}

MiB == 1024 * 1024

\* Distances of input_buffer from HeapBase (a multiple of 16 MiB).
LayoutOffsets(v) ==
    {0, 1, 16, CACHE_LINE_SIZE - 1, CACHE_LINE_SIZE, PAGE_SIZE - 1, PAGE_SIZE, PAGE_SIZE + 1}
    \cup (IF v = CopiesPad
          THEN {2 * MiB - 1, 2 * MiB, 2 * MiB + 1, 5 * MiB + 7, 12 * MiB + 1,
                14 * MiB - 5, 14 * MiB, 14 * MiB + 1, 16 * MiB - 1}
          ELSE {})

LayoutChoices(v) == { WAddN(HeapBase, r) : r \in LayoutOffsets(v) }

InitLayout ==
    /\ variant \in Aligning
    /\ arg \in Args(variant)
    /\ Entry
    /\ NoByteCall

AllocReplicasAnywhere == AllocReplicasFrom(LayoutChoices(variant))

\* The whole population loop:
\* for (i = 0; i < NUM_COPIES; ++i) { buffer = aligned + i * stride; memcpy; copies[i] = buffer; }
\* Every pass stores the same bytes, those of source_buffer, stride bytes
\* after the pass before it.
PopulateAll ==
    /\ pc = "populate"
    /\ i = 0
    /\ LET n == NUM_COPIES(variant, arg)
           first == ReplicaAddress(variant, arg, aligned_input_buffer, 0)
           second == ReplicaAddress(variant, arg, aligned_input_buffer, 1)
           one == Memcpy(input_mem, first, source_mem, Indeterminate, W(0),
                         PopulateSize(variant, arg))
           step == WCap(WSub(second, first), LIMB)
       IN  /\ input_mem' = IF n = 1 THEN one
                           ELSE [one EXCEPT ![Len(one)].stride = step,
                                            ![Len(one)].count = n]
           /\ copies' = [first |-> first, stride |-> IF n = 1 THEN 0 ELSE step, count |-> n]
           /\ i' = n
    /\ pc' = IF variant \in BulkOverwrite THEN "alloc_flush" ELSE "loop"
    /\ UNCHANGED <<heapvars, callvars, variant, arg, input_buffer, source_mem, output_mem, flush_mem,
                   flush_value, copy_index, buffer, prot, overwrites, last_flush, loopvars>>

\* The statements of the loop body an iteration executes: all of them when the
\* if block is entered, the ones outside the block otherwise.
Executed(v, wrap) ==
    LET body == LoopBody(v)
        k == CHOOSE j \in 1 .. Len(body) : body[j] = "if"
    IN  IF wrap THEN body
        ELSE SubSeq(body, 1, k) \o SubSeq(body, k + IfBlockLen(v) + 1, Len(body))

\* One whole iteration of the loop body of a rotating variant.
Pass ==
    /\ pc = "loop"
    /\ ip = 1
    /\ iter < MaxLayoutIters
    /\ LET b == CopiesAt(copies, copy_index)
           ci == copy_index + 1
           wrap == WrapCond(ci, N)
       IN  /\ buffer' = b
           /\ output_mem' = DoCopies(output_mem, MeasuredCopies(variant), 1, input_mem,
                                     InputInit(variant), b)
           /\ issued' = MeasuredCopies(variant)
           /\ trace' = Executed(variant, wrap)
           /\ copy_index' = IF wrap THEN ResetValue ELSE ci
           /\ IF wrap /\ variant \in BulkOverwrite
              THEN Overwrite
              ELSE UNCHANGED <<flush_mem, flush_value, overwrites, last_flush>>
    /\ iter' = iter + 1
    /\ UNCHANGED <<heapvars, callvars, variant, arg, pc, ip, input_buffer, i, copies, source_mem, input_mem,
                   prot, flushed>>

NextLayout ==
    \/ AllocSource
    \/ AllocReplicasAnywhere
    \/ PopulateAll
    \/ AllocFlush
    \/ FirstFlush
    \/ Pass

SpecLayout == InitLayout /\ [][NextLayout]_vars


----------------------------------------------------------------------------
(* C21 *)

\* The units of `unit` bytes (pages, cache lines, windows) that hold a byte of
\* the size bytes at address a; size > 0.
UnitsOf(a, size, unit) ==
    WDivMod(a, unit)[1] .. WDivMod(WAddN(a, size - 1), unit)[1]

\* The units the measured copies of one iteration read when they read from base.
UnitsRead(base, list, unit) ==
    UNION { UnitsOf(WAddN(base, list[k].src), list[k].size, unit) : k \in 1 .. Len(list) }

PagesRead(base) == UnitsRead(base, MeasuredCopies(variant), PAGE_SIZE)

\* C21: in memcpy_tlb, for every registered N and every base address, every
\* replica starts on a 4 KiB page boundary, the three copies of an iteration
\* read exactly 3 distinct pages, no page is read from two replicas, and one
\* rotation round reads exactly 3 * N distinct pages.
C21_ThreePagesPerReplica ==
    /\ (variant = Tlb /\ Prepared) =>
          /\ copies.count = N
          /\ \A j \in 0 .. (N - 1) :
                /\ WDivMod(CopiesAt(copies, j), PAGE_SIZE)[2] = 0
                /\ Cardinality(PagesRead(CopiesAt(copies, j))) = 3
                /\ \A p \in PagesRead(CopiesAt(copies, j)) :
                      /\ p >= WDivMod(CopiesAt(copies, j), PAGE_SIZE)[1]
                      /\ j + 1 < N => p < WDivMod(CopiesAt(copies, j + 1), PAGE_SIZE)[1]
          /\ Cardinality(UNION { PagesRead(CopiesAt(copies, j)) : j \in 0 .. (N - 1) }) = 3 * N
    /\ (variant = Tlb /\ AtBoundary /\ iter > 0) =>
          /\ buffer = CopiesAt(copies, iter - 1)
          /\ Cardinality(UnitsRead(buffer, issued, PAGE_SIZE)) = 3

C21_Witness ==
    /\ variant = Tlb
    /\ arg = 3500
    /\ AtBoundary
    /\ iter = 3
    /\ input_buffer = WAddN(HeapBase, PAGE_SIZE + 1)
    /\ Len(issued) = 3
    /\ buffer = WAddN(HeapBase, 2 * PAGE_SIZE + 2 * 5 * PAGE_SIZE)
    /\ ByteAt(output_mem, Indeterminate, W(0)) = MARKER


----------------------------------------------------------------------------
(* C22 *)

\* The units of `unit` bytes that hold a byte of replica j.
ReplicaUnits(j, unit) == UnitsOf(CopiesAt(copies, j), SOURCE_SIZE(variant, arg), unit)

\* Every unit of replica j lies below every unit of replica j + 1; as replica
\* addresses increase with j, no unit then holds bytes of two replicas.
UnitsApart(unit) ==
    \A j \in 0 .. (N - 2) :
        \A p \in ReplicaUnits(j, unit) : \A q \in ReplicaUnits(j + 1, unit) : p < q

\* C22: in memcpy_copies_padded, for every base address: with a padding of
\* 16 MiB no two replicas have a byte in the same 16 MiB-aligned window and no
\* replica straddles two windows; with a padding of 4096 no 4 KiB page holds
\* bytes of two replicas.
C22_ReplicasInOwnWindows ==
    (variant = CopiesPad /\ Prepared) =>
        /\ copies.count = N
        /\ arg = 16 * MiB =>
              /\ \A j \in 0 .. (N - 1) : Cardinality(ReplicaUnits(j, 16 * MiB)) = 1
              /\ UnitsApart(16 * MiB)
        /\ arg = PAGE_SIZE => UnitsApart(PAGE_SIZE)

C22_Witness ==
    /\ variant = CopiesPad
    /\ arg = 16 * MiB
    /\ AtBoundary
    /\ iter = 3
    /\ input_buffer = WAddN(HeapBase, 14 * MiB - 5)
    /\ WDivMod(buffer, 16 * MiB) = <<HeapBase[1] + 2, 14 * MiB>>
    /\ RangeIs(input_mem, Indeterminate, buffer, SOURCE_SIZE(variant, arg), MARKER)


----------------------------------------------------------------------------
(* C23 *)

\* m is the smallest multiple of p that is at least n (p > 0).
SmallestMultiple(m, p, n) == m % p = 0 /\ m >= n /\ m - p < n

\* C23: in memcpy_copies_padded, PADDED_SOURCE_SIZE is the smallest multiple
\* of the padding that is at least 17234 (20480 for 4096, 16777216 for 16 MiB),
\* and 17234 without padding; it is never smaller than 17234, and the replicas,
\* placed PADDED_SOURCE_SIZE bytes apart, do not overlap.
C23_PaddedSizeRoundsUp ==
    (variant = CopiesPad /\ pc # "begin") =>
        /\ arg = 0 => PADDED_SOURCE_SIZE(arg) = 17234
        /\ arg # 0 => SmallestMultiple(PADDED_SOURCE_SIZE(arg), arg, 17234)
        /\ arg = PAGE_SIZE => PADDED_SOURCE_SIZE(arg) = 20480
        /\ arg = 16 * MiB => PADDED_SOURCE_SIZE(arg) = 16777216
        /\ PADDED_SOURCE_SIZE(arg) >= SOURCE_SIZE(variant, arg)
        /\ Prepared =>
              /\ copies.count = N
              /\ copies.stride = PADDED_SOURCE_SIZE(arg)
              /\ \A j \in 0 .. (N - 2) :
                    WLeq(WAddN(CopiesAt(copies, j), SOURCE_SIZE(variant, arg)),
                         CopiesAt(copies, j + 1))

C23_Witness ==
    /\ variant = CopiesPad
    /\ arg = PAGE_SIZE
    /\ AtBoundary
    /\ iter = 2
    /\ copies.stride = 20480
    /\ buffer = WAddN(copies.first, 20480)
    /\ input_buffer = WAddN(HeapBase, 2 * MiB + 1)


----------------------------------------------------------------------------
(* C24 *)

\* One past the last byte of the input_buffer allocation.
InputEnd == WAdd(input_buffer, BytesOf("input_buffer"))

\* The n bytes at a lie inside the input_buffer allocation.
InsideInput(a, n) == WLeq(input_buffer, a) /\ WLeq(WAddN(a, n), InputEnd)

\* Every byte a fill stored lies inside the input_buffer allocation.
FillInsideInput(f) ==
    /\ WLeq(input_buffer, f.start)
    /\ WLeq(WAddN(WAdd(f.start, WMulN(W(f.stride), f.count - 1)), f.len), InputEnd)

\* C24: in memcpy_cpu_flush, cache_flushing_flush_std_memset,
\* memcpy_cpu_flush_padded, memcpy_tlb (alignment 4096) and
\* memcpy_copies_padded (alignment 2 MiB), for every base address: the aligned
\* base is a multiple of the alignment and lies in
\* [input_buffer, input_buffer + alignment), and every byte the population
\* loop writes and every byte a measured copy reads lies inside the
\* INPUT_BUFFER_SIZE bytes allocated for input_buffer.
C24_AlignmentStaysInside ==
    /\ (variant \in Aligning /\ Prepared) =>
          /\ copies.count = N
          /\ BytesOf("input_buffer") = INPUT_BUFFER_SIZE(variant, arg)
          /\ WDivMod(copies.first, InputAlignment(variant))[2] = 0
          /\ WLeq(input_buffer, copies.first)
          /\ WLess(copies.first, WAddN(input_buffer, InputAlignment(variant)))
          /\ \A k \in 1 .. Len(input_mem) : FillInsideInput(input_mem[k])
          /\ \A j \in 0 .. (N - 1) :
                /\ InsideInput(CopiesAt(copies, j), PopulateSize(variant, arg))
                /\ \A k \in 1 .. Len(MeasuredCopies(variant)) :
                      InsideInput(WAddN(CopiesAt(copies, j), MeasuredCopies(variant)[k].src),
                                  MeasuredCopies(variant)[k].size)
    /\ (variant \in Aligning /\ AtBoundary /\ iter > 0) =>
          \A k \in 1 .. Len(issued) : InsideInput(WAddN(buffer, issued[k].src), issued[k].size)

C24_Witness ==
    /\ variant = StdMemset
    /\ arg = 32
    /\ AtBoundary
    /\ iter = 1
    /\ input_buffer = WAddN(HeapBase, PAGE_SIZE - 1)
    /\ copies.first = WAddN(HeapBase, PAGE_SIZE)
    /\ buffer = copies.first
    /\ Len(issued) = 1


----------------------------------------------------------------------------
(* C25 *)

\* The cache lines the copies issued in the current iteration read.
LinesRead ==
    UNION { LinesOverlapping(WAddN(ReadBase, issued[k].src), issued[k].size) :
              k \in 1 .. Len(issued) }

\* C25: in memcpy_clflush and cache_flushing_clflush, for every base alignment
\* modulo 64, every cache line a measured copy of an iteration reads is flushed
\* by the flush loop of that iteration, which runs after the copies and has
\* run when the iteration ends, before the start timestamp of the next one.
C25_ReadLinesFlushed ==
    (variant \in ExplicitFlush /\ pc = "loop") =>
        /\ InTrace("clflush") =>
              /\ InTrace("copies")
              /\ Pos("copies") < Pos("clflush")
              /\ issued = MeasuredCopies(variant)
              /\ LinesRead \subseteq flushed
        /\ (AtBoundary /\ iter > 0) =>
              /\ InTrace("clflush")
              /\ ~(\E k \in 1 .. Len(trace) : trace[k] = "start" /\ k > Pos("clflush"))

C25_Witness ==
    /\ variant = Clflush
    /\ AtBoundary
    /\ iter = 2
    /\ BaseResidue = 63
    /\ Len(issued) = 3
    /\ WDivMod(WAddN(input_buffer, 16886), CACHE_LINE_SIZE)[1] \in flushed
    /\ WDivMod(WAddN(input_buffer, 17233), CACHE_LINE_SIZE)[1] \notin flushed


----------------------------------------------------------------------------
(* C26 *)

\* Every byte stored in the flush allocation lies in the flush region.
FlushOnlyInRegion ==
    \A k \in 1 .. Len(flush_mem) :
        /\ flush_mem[k].count = 1
        /\ WLeq(W(VMEM_PADDING(variant, arg)), flush_mem[k].start)
        /\ WLeq(WAddN(flush_mem[k].start, flush_mem[k].len),
                W(VMEM_PADDING(variant, arg) + FLUSH_BUFFER_SIZE(variant, arg)))

\* The replica the current iteration fetched holds the bytes of source_buffer.
FetchedReplicaIntact ==
    (pc = "loop" /\ variant \in Rotating /\ InTrace("fetch")) =>
        RangesEqual(input_mem, InputInit(variant), buffer,
                    source_mem, Indeterminate, W(0), SOURCE_SIZE(variant, arg))

\* C26: after preparation no statement of the benchmark loop (measured copy,
\* flush-buffer overwrite, clflush, protection toggle, cursor update) modifies
\* the source buffer, the input buffer or the replica pointers, in any variant
\* and through any number of iterations; every replica fetched equals the
\* source buffer, and stores into the flush allocation stay in the flush region.
C26_ReplicasReadOnly ==
    /\ [](FetchedReplicaIntact /\ FlushOnlyInRegion)
    /\ [][pc = "loop" =>
            /\ source_mem' = source_mem
            /\ input_mem' = input_mem
            /\ copies' = copies
            /\ input_buffer' = input_buffer]_vars

C26_Witness ==
    /\ variant = Padded
    /\ arg = 96
    /\ AtBoundary
    /\ iter = N + 1
    /\ overwrites = 2
    /\ buffer = CopiesAt(copies, 0)
    /\ RangeIs(input_mem, Indeterminate, buffer, SOURCE_SIZE(variant, arg), MARKER)
    /\ ByteAt(output_mem, Indeterminate, W(0)) = MARKER


----------------------------------------------------------------------------
(* The byte loops memset_impl and memcpy_impl, one pass of the loop per      *)
(* step, on a small memory with known contents: every length up to MaxLen, *)
(* every placement that leaves a byte before and after each range, and for *)
(* memcpy_impl every pair of ranges that do not overlap.                   *)

\* The largest buffer_size / count.
MaxLen == 3

\* Room for two ranges of MaxLen bytes with a byte before and after.
MemSize == 2 * MaxLen + 2

Addresses == 0 .. (MemSize - 1)

\* Every address holds a different byte when the function is entered.
InitialMemory == [a \in Addresses |-> 16 + a]

\* The values passed for `value`.
FillValues == {0, 16, MARKER, 255}

benchvars == <<variant, arg, pc, ip, iter, input_buffer, i, copies, source_mem, input_mem,
               output_mem, flush_mem, flush_value, copy_index, buffer, prot, flushed,
               trace, issued, overwrites, last_flush, allocs, frees, live, counters>>

\* memset_impl(buffer, buffer_size, value) at for (uint8_t* ptr = buffer; ...
MemsetCall(b, n, v) ==
    [fn |-> "memset_impl", buffer |-> b, buffer_size |-> n, value |-> v, ptr |-> b,
     at |-> "test"]

\* memcpy_impl(dst, src, count) after const uint8_t* end = src + count;
MemcpyCall(d, s, n) ==
    [fn |-> "memcpy_impl", dst |-> d, src |-> s, count |-> n, end |-> s + n, at |-> "test"]

\* The addresses a range of n bytes may start at.
Starts(n) == 1 .. (MemSize - 1 - n)

MemsetCalls(n) == { MemsetCall(b, n, v) : b \in Starts(n), v \in FillValues }

MemcpyCalls(n) ==
    { MemcpyCall(p[1], p[2], n) :
        p \in { q \in Starts(n) \X Starts(n) : q[1] + n <= q[2] \/ q[2] + n <= q[1] } }

Calls == UNION { MemsetCalls(n) \cup MemcpyCalls(n) : n \in 0 .. MaxLen }

InitLoops ==
    /\ variant = CopiesPad
    /\ arg = 0
    /\ Entry
    /\ call \in Calls
    /\ memory = InitialMemory
    /\ entry = [call |-> call, memory |-> memory]
    /\ stores = {}

\* A loop test that lets the pointer reach buffer + buffer_size.
MemsetContinue_Inclusive(c) == c.ptr <= c.buffer + c.buffer_size

\* ptr < buffer + buffer_size
MemsetContinue(c) == c.ptr < c.buffer + c.buffer_size

\* *ptr = value; ++ptr
MemsetStore ==
    /\ call.fn = "memset_impl"
    /\ call.at = "test"
    /\ MemsetContinue(call)
    /\ memory' = [memory EXCEPT ![call.ptr] = call.value]
    /\ stores' = stores \cup {call.ptr}
    /\ call' = [call EXCEPT !.ptr = @ + 1]
    /\ UNCHANGED <<entry, benchvars>>

\* The test fails and memset_impl returns.
MemsetReturn ==
    /\ call.fn = "memset_impl"
    /\ call.at = "test"
    /\ ~MemsetContinue(call)
    /\ call' = [call EXCEPT !.at = "returned"]
    /\ UNCHANGED <<memory, stores, entry, benchvars>>

\* src < end
MemcpyContinue(c) == c.src < c.end

\* *dst++ = *src++;
MemcpyStore ==
    /\ call.fn = "memcpy_impl"
    /\ call.at = "test"
    /\ MemcpyContinue(call)
    /\ memory' = [memory EXCEPT ![call.dst] = memory[call.src]]
    /\ stores' = stores \cup {call.dst}
    /\ call' = [call EXCEPT !.dst = @ + 1, !.src = @ + 1]
    /\ UNCHANGED <<entry, benchvars>>

\* The test fails and memcpy_impl returns.
MemcpyReturn ==
    /\ call.fn = "memcpy_impl"
    /\ call.at = "test"
    /\ ~MemcpyContinue(call)
    /\ call' = [call EXCEPT !.at = "returned"]
    /\ UNCHANGED <<memory, stores, entry, benchvars>>

NextLoops ==
    \/ MemsetStore
    \/ MemsetReturn
    \/ MemcpyStore
    \/ MemcpyReturn

\* The function runs on one thread that executes its next statement as long
\* as there is one.
SpecLoops == InitLoops /\ [][NextLoops]_vars /\ WF_vars(NextLoops)

----------------------------------------------------------------------------
(* C27 *)

\* std::memset(b, v, n) applied to the memory m
LibMemset(m, b, n, v) ==
    [a \in DOMAIN m |-> IF b <= a /\ a < b + n THEN v ELSE m[a]]

\* std::memcpy(d, s, n) applied to the memory m, for ranges that do not overlap
LibMemcpy(m, d, s, n) ==
    [a \in DOMAIN m |-> IF d <= a /\ a < d + n THEN m[s + (a - d)] ELSE m[a]]

\* The memory m as a sequence of one-byte fills, and a sequence of fills as a memory.
AsFills(m) == [k \in 1 .. MemSize |-> Fill(W(k - 1), 1, m[k - 1])]

AsMemory(fills) == [a \in Addresses |-> ByteAt(fills, Indeterminate, W(a))]

Returned == call.at = "returned"

MemsetImplCorrect ==
    call.fn = "memset_impl" =>
        LET e == entry.call
            range == e.buffer .. (e.buffer + e.buffer_size - 1)
        IN  /\ stores \subseteq range
            /\ \A a \in Addresses \ stores : memory[a] = entry.memory[a]
            /\ Returned =>
                  /\ stores = range
                  /\ memory = LibMemset(entry.memory, e.buffer, e.buffer_size, e.value)
                  /\ memory = AsMemory(Memset(AsFills(entry.memory), W(e.buffer),
                                              e.buffer_size, e.value))

MemcpyImplCorrect ==
    call.fn = "memcpy_impl" =>
        LET e == entry.call
            range == e.dst .. (e.dst + e.count - 1)
        IN  /\ stores \subseteq range
            /\ \A a \in Addresses \ stores : memory[a] = entry.memory[a]
            /\ Returned =>
                  /\ stores = range
                  /\ \A k \in 0 .. (e.count - 1) :
                        memory[e.dst + k] = entry.memory[e.src + k]
                  /\ memory = LibMemcpy(entry.memory, e.dst, e.src, e.count)
                  /\ memory = AsMemory(Memcpy(AsFills(entry.memory), W(e.dst),
                                              AsFills(entry.memory), Indeterminate,
                                              W(e.src), e.count))

\* C27: memset_impl(buffer, n, v) terminates and leaves exactly the bytes
\* buffer[0..n-1] equal to v, storing to no other byte (to none when n = 0),
\* as std::memset does; memcpy_impl(dst, src, count) on ranges that do not
\* overlap terminates and leaves dst[0..count-1] equal to src[0..count-1],
\* storing to no other byte, as std::memcpy does.
C27_LoopsMatchLibrary ==
    /\ [](MemsetImplCorrect /\ MemcpyImplCorrect)
    /\ <>Returned

C27_Witness ==
    /\ call.fn = "memcpy_impl"
    /\ Returned
    /\ entry.call.count = MaxLen
    /\ entry.call.dst < entry.call.src
    /\ Cardinality(stores) = MaxLen
    /\ memory[entry.call.dst] = 16 + entry.call.src
    /\ memory[entry.call.dst - 1] = 16 + entry.call.dst - 1


----------------------------------------------------------------------------
(* C28 *)

\* The cache lines the measured copies of an iteration read from replica j.
ReplicaLines(j) == UnitsRead(CopiesAt(copies, j), MeasuredCopies(variant), CACHE_LINE_SIZE)

\* Every line read from a replica lies below every line read from the next one.
LinesInOrder ==
    \A j \in 0 .. (N - 2) :
        \A p \in ReplicaLines(j) : \A q \in ReplicaLines(j + 1) : p < q

\* No cache line is read from two replicas; lines in replica order are a
\* special case that needs no comparison of every pair.
LinesPairwiseDisjoint ==
    \/ LinesInOrder
    \/ \A j \in 0 .. (N - 1) : \A k \in 0 .. (N - 1) :
          j # k => ReplicaLines(j) \cap ReplicaLines(k) = {}

\* The variants C28 names.
WarmFree == {CpuFlush, Padded, CopiesPad, Tlb, L3, VmemTlb}

\* C28: within one rotation round no 64-byte cache line is read by the
\* measured copies of two different iterations: the sets of cache lines read
\* from replica i and replica j are disjoint for all i # j.
\* memcpy_vmem_tlb_flush places its replicas one byte apart and violates this.
C28_NoLineReadTwice ==
    (variant \in WarmFree /\ Prepared) =>
        /\ copies.count = N
        /\ LinesPairwiseDisjoint

----------------------------------------------------------------------------
(* Many rotations: memcpy_cpu_flush with Arg(8), one iteration of the        *)
(* benchmark loop per step, long enough for the 8-bit flush_value to wrap.  *)

\* The harness runs MaxWraps * NUM_COPIES iterations.
MaxWraps == 256

InitRounds ==
    /\ Init
    /\ variant = CpuFlush
    /\ arg = 8

\* One whole iteration of the loop body of a bulk-overwrite variant:
\* fetch, start, copies, end, if (copy_index >= NUM_COPIES) { memset; reset }, settime
Iteration ==
    /\ pc = "loop"
    /\ ip = 1
    /\ variant \in BulkOverwrite
    /\ iter < MaxWraps * N
    /\ LET b == CopiesAt(copies, copy_index)
           ci == copy_index + 1
           wrap == WrapCond(ci, N)
       IN  /\ buffer' = b
           /\ output_mem' = DoCopies(output_mem, MeasuredCopies(variant), 1, input_mem,
                                     InputInit(variant), b)
           /\ issued' = MeasuredCopies(variant)
           /\ IF wrap
              THEN /\ Overwrite
                   /\ copy_index' = ResetValue
                   /\ trace' = FlushBody
              ELSE /\ copy_index' = ci
                   /\ trace' = SubSeq(FlushBody, 1, 5) \o SubSeq(FlushBody, 8, 8)
                   /\ UNCHANGED <<flush_mem, flush_value, overwrites, last_flush>>
    /\ iter' = iter + 1
    /\ UNCHANGED <<heapvars, callvars, variant, arg, pc, ip, input_buffer, i, copies, source_mem, input_mem,
                   prot, flushed>>

FinishRounds ==
    /\ pc = "loop"
    /\ ip = 1
    /\ iter = MaxWraps * N
    /\ pc' = "done"
    /\ UNCHANGED <<heapvars, callvars, variant, arg, input_buffer, i, copies, source_mem, input_mem,
                   output_mem, flush_mem, flush_value, copy_index, buffer, prot,
                   overwrites, last_flush, loopvars>>

NextRounds ==
    \/ AllocSource
    \/ AllocReplicas
    \/ Populate
    \/ AllocFlush
    \/ FirstFlush
    \/ Iteration
    \/ FinishRounds

SpecRounds == InitRounds /\ [][NextRounds]_vars

----------------------------------------------------------------------------
(* C7 *)

FlushRegionStart == W(VMEM_PADDING(variant, arg))

\* C7: every overwrite performed at a rotation wrap changes the flush region:
\* the byte the region holds after the call differs from the byte it held
\* before, also when the 8-bit flush_value wraps from 255 to 0.
C7_OverwriteChangesRegion ==
    (variant \in BulkOverwrite /\ pc = "loop" /\ InTrace("memset")) =>
        /\ last_flush[1] \in 0 .. 255
        /\ last_flush[2] \in 0 .. 255
        /\ last_flush[1] # last_flush[2]
        /\ RangeIs(flush_mem, Indeterminate, FlushRegionStart,
                   FLUSH_BUFFER_SIZE(variant, arg), last_flush[2])

C7_Witness ==
    /\ variant \in BulkOverwrite
    /\ pc = "loop"
    /\ InTrace("memset")
    /\ last_flush = <<255, 0>>
    /\ overwrites = 257
    /\ flush_value = 1

====
